---- MODULE Spec2Model ----
(***************************************************************************)
(* A model of scripts/word_to_latex.py: the Word-to-LaTeX thesis           *)
(* converter.                                                              *)
(*                                                                         *)
(* Text is a sequence of tokens.  A token is a string standing for one     *)
(* character ("%", "&", "\\", "\"", " ", "\n", "a", ...) or for one        *)
(* indivisible run of characters that the regular expressions of the       *)
(* script treat as a unit ("\\chapter{", "Natural Rubber Latex", "NRL",    *)
(* "\\ac{", ...).  The regular expressions are modelled at that            *)
(* granularity: a lookbehind or lookahead inspects the last or first       *)
(* character of the neighbouring token.  The non-ASCII characters of the   *)
(* source are written <deg>, <times>, <emdash>, <endash>.                  *)
(***************************************************************************)
EXTENDS Integers, Sequences, FiniteSets, TLC

VARIABLES
    \* the text functions, each checked on its own
    text,       \* the argument of the text function under check
    out,        \* its result
    out2,       \* the result of applying it again to out
    chapters,   \* the result of split_into_chapters
    stage,      \* "in" before the call, "once" after it, "twice" after the second
    \* the clock and the file system
    now,        \* time.time() and time.strftime(), in whole seconds
    srcExists,  \* WORD_FILE.exists()
    srcDoc,     \* what the converter prints for the current WORD_FILE
    files,      \* CHAPTERS_DIR / chapterN.tex, N in 1..3
    baks,       \* CHAPTERS_DIR / chapterN.tex.bak
    \* bookkeeping of the conversions run so far
    result,     \* what the last convert_once returned: "none", "ok", "failed"
    runs,       \* calls of convert_once
    written,    \* per chapter file, how often the program wrote it (2 = twice or more)
    before,     \* per chapter file, what it held just before its latest write
    lastRun,    \* the latest process_and_save: its content and time
    prevRun,    \* the one before it: its content and time, and the files it left
    \* watch mode
    pc,             \* where the program is: "initial", "initial_converting" (main
                    \* thread, before observer.start()), then the observer thread:
                    \* "idle", "settling" (in time.sleep(1)), "converting", "stopped"
    queue,          \* the observer's event queue
    last_modified,  \* WordFileHandler.last_modified
    active,         \* convert_once calls in progress
    inflight,       \* what the convert_once in progress read: [exists, doc]
    \* bookkeeping of watch mode
    events,         \* events delivered to the observer so far
    lastEvent,      \* the latest on_modified call: the event, the clock, last_modified
                    \* before it, and whether it went on to convert
    accepted,       \* events that passed the tests of on_modified
    started,        \* convert_once calls made by on_modified
    convStart,      \* the clock when the latest of them began
    startFs,        \* the chapter and .bak files when the latest convert_once began
    failures,       \* convert_once calls that returned False (2 = two or more)
    pendingChange   \* a modification event arrived and no conversion began since

textVars == <<text, out, out2, chapters, stage>>
fsVars == <<now, srcExists, srcDoc, files, baks>>
histVars == <<result, runs, written, before, lastRun, prevRun>>
watchVars == <<pc, queue, last_modified, active, inflight>>
watchHist == <<events, lastEvent, accepted, started, convStart, startFs, failures, pendingChange>>
vars == <<textVars, fsVars, histVars, watchVars, watchHist>>

-----------------------------------------------------------------------------
(* Bounds *)

MaxFixLen == 5
MaxAcrLen == 6
MaxSplitLen == 6
Epoch == 3          \* the clock when the program starts (any value above the debounce)
MaxOnceTicks == 3   \* seconds the clock advances over the --once runs
MaxRuns == 4        \* conversions in a behaviour
MaxWatchTicks == 4  \* seconds the clock advances in watch mode
MaxEvents == 3      \* events delivered in a behaviour

-----------------------------------------------------------------------------
(* Character classes of tokens, as the regular expressions read them *)

\* tokens that are one whitespace character (Python's \s, str.strip())
SpaceTokens == {" ", "\n"}

\* tokens whose first character is an ASCII letter ([a-zA-Z])
FirstLetterTokens ==
    {"a", "b", "c", "x", "NRL", "nrl", "NR", "CO2", "CH4", "H2O", "O2",
     "Natural Rubber Latex", "natural rubber latex", "Natural Rubber",
     "Introduction", "Background and Significance", "Chapter 2",
     "Literature review", "ch:introduction", "ch:literature-review",
     "sec:background-and-significance"}

\* tokens whose last character is an ASCII letter
LastLetterTokens ==
    {"a", "b", "c", "x", "NRL", "nrl", "NR", "H2O",
     "Natural Rubber Latex", "natural rubber latex", "Natural Rubber",
     "Introduction", "Background and Significance",
     "Literature review", "ch:introduction", "ch:literature-review",
     "sec:background-and-significance", "\\textasciitilde"}

\* tokens that are one decimal digit (\d)
DigitTokens == {"1", "5"}

\* tokens whose first / last character is a word character (\w)
FirstWordTokens == FirstLetterTokens \cup DigitTokens
LastWordTokens == LastLetterTokens \cup DigitTokens \cup {"CO2", "CH4", "O2", "Chapter 2", "\\1"}

\* tokens whose first / last character is a backslash
FirstBackslashTokens ==
    {"\\", "\\1", "\\chapter{", "\\ac{", "\\label{", "\\section{",
     "\\textasciitilde", "\\textdegree{}"}
LastBackslashTokens == {"\\"}

-----------------------------------------------------------------------------
(* Sequence helpers *)

RECURSIVE Flatten(_)
Flatten(ss) ==
    IF ss = <<>> THEN <<>> ELSE Head(ss) \o Flatten(Tail(ss))

\* re.sub of a one-token pattern: every position of s in the set M (the
\* matches, decided on the original s, as lookarounds are) is replaced by
\* the tokens r
SubAt(s, M, r) ==
    Flatten([i \in 1..Len(s) |-> IF i \in M THEN r ELSE <<s[i]>>])

\* the least index j >= i with s[j] in T, or Len(s) + 1
RECURSIVE FirstIn(_, _, _)
FirstIn(s, i, T) ==
    IF i > Len(s) THEN Len(s) + 1
    ELSE IF s[i] \in T THEN i
    ELSE FirstIn(s, i + 1, T)

\* the least index j >= i with s[j] not in T, or Len(s) + 1
RECURSIVE FirstNotIn(_, _, _)
FirstNotIn(s, i, T) ==
    IF i > Len(s) THEN Len(s) + 1
    ELSE IF s[i] \notin T THEN i
    ELSE FirstNotIn(s, i + 1, T)

\* pat occurs in s as a run of consecutive tokens
Occurs(pat, s) ==
    \E k \in 1..(Len(s) - Len(pat) + 1) : SubSeq(s, k, k + Len(pat) - 1) = pat

\* all sequences over S of length at most n
RECURSIVE SeqsUpTo(_, _)
SeqsUpTo(S, n) ==
    IF n = 0 THEN {<<>>}
    ELSE LET shorter == SeqsUpTo(S, n - 1)
         IN  shorter \cup {Append(s, t) : s \in {u \in shorter : Len(u) = n - 1}, t \in S}

-----------------------------------------------------------------------------
(* fix_special_characters *)

\* re.sub(r'\\textasciitilde\s*', r'$\\sim$', content)
RECURSIVE FixTextTilde(_, _)
FixTextTilde(s, i) ==
    IF i > Len(s) THEN <<>>
    ELSE IF s[i] = "\\textasciitilde"
         THEN <<"$\\sim$">> \o
              FixTextTilde(s, FirstNotIn(s, i + 1, SpaceTokens))
         ELSE <<s[i]>> \o FixTextTilde(s, i + 1)

\* re.sub(r'~(?=\d)', r'$\\sim$', content)
FixTilde(s) ==
    SubAt(s, {i \in 1..Len(s) : s[i] = "~" /\ i < Len(s) /\ s[i + 1] \in DigitTokens},
          <<"$\\sim$">>)

\* re.sub(r'<deg>', r'\\textdegree{}', content)
FixDegree(s) == SubAt(s, {i \in 1..Len(s) : s[i] = "<deg>"}, <<"\\textdegree{}">>)

\* \b on both sides of the one-token word at i
WordBounded(s, i) ==
    /\ (i = 1 \/ s[i - 1] \notin LastWordTokens)
    /\ (i = Len(s) \/ s[i + 1] \notin FirstWordTokens)

\* re.sub(r'\bCO2\b', r'CO$_2$', content) and the three that follow it
FixFormula(s, formula, r) ==
    SubAt(s, {i \in 1..Len(s) : s[i] = formula /\ WordBounded(s, i)}, r)

FixFormulas(s) ==
    LET s1 == FixFormula(s, "CO2", <<"CO$_2$">>)
        s2 == FixFormula(s1, "CH4", <<"CH$_4$">>)
        s3 == FixFormula(s2, "H2O", <<"H$_2$O">>)
    IN  FixFormula(s3, "O2", <<"O$_2$">>)

\* re.sub(r'<times>', r'$\\times$', content)
FixTimes(s) == SubAt(s, {i \in 1..Len(s) : s[i] = "<times>"}, <<"$\\times$">>)

\* what the replacement template r"``\\1''" expands to for the quoted span
\* s[i+1 .. j-1]: in a template, \\ is an escaped backslash, so the result is
\* the four characters ``, a literal backslash and 1, and '' -- not group 1
QuoteTemplate(s, i, j) == <<"``", "\\1", "''">>

\* re.sub(r'"([^"]*)"', r"``\\1''", content)
RECURSIVE FixQuotes(_, _)
FixQuotes(s, i) ==
    IF i > Len(s) THEN <<>>
    ELSE LET j == FirstIn(s, i + 1, {"\""})
         IN  IF s[i] = "\"" /\ j <= Len(s)
             THEN QuoteTemplate(s, i, j) \o FixQuotes(s, j + 1)
             ELSE <<s[i]>> \o FixQuotes(s, i + 1)

\* re.sub(r'<emdash>', r'---', content); re.sub(r'<endash>', r'--', content)
FixDashes(s) ==
    LET s1 == SubAt(s, {i \in 1..Len(s) : s[i] = "<emdash>"}, <<"---">>)
    IN  SubAt(s1, {i \in 1..Len(s1) : s1[i] = "<endash>"}, <<"--">>)

\* (?<!\\) at position i
NotAfterBackslash(s, i) == i = 1 \/ s[i - 1] \notin LastBackslashTokens

\* (?!\\) at position i
NotBeforeBackslash(s, i) == i = Len(s) \/ s[i + 1] \notin FirstBackslashTokens

\* re.sub(r'(?<!\\)%', r'\\%', content)
FixPercent(s) ==
    SubAt(s, {i \in 1..Len(s) : s[i] = "%" /\ NotAfterBackslash(s, i)}, <<"\\", "%">>)

\* the pattern r'(?<!\\)&(?!\\)' at position i
AmpersandMatch(s, i) ==
    s[i] = "&" /\ NotAfterBackslash(s, i) /\ NotBeforeBackslash(s, i)

\* re.sub(r'(?<!\\)&(?!\\)', r'\\&', content)
FixAmpersand(s) ==
    SubAt(s, {i \in 1..Len(s) : AmpersandMatch(s, i)}, <<"\\", "&">>)

fix_special_characters(content) ==
    LET c1 == FixTextTilde(content, 1)
        c2 == FixTilde(c1)
        c3 == FixDegree(c2)
        c4 == FixFormulas(c3)
        c5 == FixTimes(c4)
        c6 == FixQuotes(c5, 1)
        c7 == FixDashes(c6)
        c8 == FixPercent(c7)
    IN  FixAmpersand(c8)

-----------------------------------------------------------------------------
(* Files *)

\* CHAPTERS
CHAPTERS ==
    [n \in 1..3 |->
        CASE n = 1 -> [title |-> "Introduction", label |-> "ch:introduction",
                       file |-> "chapter1.tex"]
          [] n = 2 -> [title |-> "Literature Review", label |-> "ch:literature-review",
                       file |-> "chapter2.tex"]
          [] n = 3 -> [title |-> "Research Methodology", label |-> "ch:methodology",
                       file |-> "chapter3.tex"]]

\* a path that does not exist
Absent == [exists |-> FALSE, file |-> "", num |-> 0, title |-> "", stamp |-> 0, body |-> <<>>]

\* a chapter file that was there before the program ran
Template(n) ==
    [exists |-> TRUE, file |-> CHAPTERS[n].file, num |-> n, title |-> "template",
     stamp |-> 0, body |-> <<"template">>]

\* a file system event as on_modified reads it
Events == [is_directory : BOOLEAN, src_path : {"word", "other"}]

NoEvent ==
    [seen |-> FALSE, is_directory |-> FALSE, src_path |-> "", at |-> 0, was |-> 0,
     took |-> FALSE]

\* the state in which the program does not watch
NoWatch ==
    /\ pc = "initial"
    /\ queue = <<>>
    /\ last_modified = 0
    /\ active = 0
    /\ inflight = [exists |-> FALSE, doc |-> <<>>]
    /\ events = 0
    /\ lastEvent = NoEvent
    /\ accepted = 0
    /\ started = 0
    /\ convStart = 0
    /\ startFs = [files |-> [n \in 1..3 |-> Absent], baks |-> [n \in 1..3 |-> Absent]]
    /\ failures = 0
    /\ pendingChange = FALSE

NoRun == [content |-> <<>>, time |-> 0]
NoPrevRun == [content |-> <<>>, time |-> 0, files |-> [n \in 1..3 |-> Absent]]

\* the state in which no conversion has run
NoConversion ==
    /\ now = Epoch
    /\ srcExists = TRUE
    /\ srcDoc = <<>>
    /\ files = [n \in 1..3 |-> Absent]
    /\ baks = [n \in 1..3 |-> Absent]
    /\ result = "none"
    /\ runs = 0
    /\ written = [n \in 1..3 |-> 0]
    /\ before = [n \in 1..3 |-> Absent]
    /\ lastRun = NoRun
    /\ prevRun = NoPrevRun
    /\ NoWatch

\* the state in which no text function is under check
NoText ==
    /\ text = <<>>
    /\ out = <<>>
    /\ out2 = <<>>
    /\ chapters = <<>>
    /\ stage = "in"

-----------------------------------------------------------------------------
(* The normalizer applied to every text of up to MaxFixLen tokens *)

FixAlphabet == {"%", "&", "\\", "\"", "a", "<emdash>"}

FixInit ==
    /\ text \in SeqsUpTo(FixAlphabet, MaxFixLen)
    /\ out = <<>>
    /\ out2 = <<>>
    /\ chapters = <<>>
    /\ stage = "in"
    /\ NoConversion

FixOnce ==
    /\ stage = "in"
    /\ out' = fix_special_characters(text)
    /\ stage' = "once"
    /\ UNCHANGED <<text, out2, chapters, fsVars, histVars, watchVars, watchHist>>

FixTwice ==
    /\ stage = "once"
    /\ out2' = fix_special_characters(out)
    /\ stage' = "twice"
    /\ UNCHANGED <<text, out, chapters, fsVars, histVars, watchVars, watchHist>>

FixNext == FixOnce \/ FixTwice

FixSpec == FixInit /\ [][FixNext]_vars

-----------------------------------------------------------------------------
(* replace_acronyms *)

\* ACRONYMS, in the order of the dictionary: the entries whose words are
\* tokens of the model
ACRONYMS ==
    <<[short |-> "NRL", full |-> "Natural Rubber Latex"],
      [short |-> "NR", full |-> "Natural Rubber"]>>

\* str.lower() of a token, for re.IGNORECASE
Lower(t) ==
    CASE t = "Natural Rubber Latex" -> "natural rubber latex"
      [] t = "Natural Rubber" -> "natural rubber"
      [] t = "NRL" -> "nrl"
      [] t = "NR" -> "nr"
      [] t = "Chapter 2" -> "chapter 2"
      [] t = "Literature review" -> "literature review"
      [] OTHER -> t

\* rf'{re.escape(full)}\s*\({re.escape(short)}\)' with re.IGNORECASE, tried
\* at position i: the index of the closing parenthesis of the match, or 0
FullFormEnd(s, i, short, full) ==
    IF i > Len(s) \/ Lower(s[i]) # Lower(full) THEN 0
    ELSE LET j == FirstNotIn(s, i + 1, SpaceTokens)
         IN  IF /\ j + 2 <= Len(s)
                /\ s[j] = "("
                /\ Lower(s[j + 1]) = Lower(short)
                /\ s[j + 2] = ")"
             THEN j + 2
             ELSE 0

\* re.search(pattern, content, re.IGNORECASE)
FullFormFound(s, short, full) ==
    \E i \in 1..Len(s) : FullFormEnd(s, i, short, full) # 0

\* re.sub(pattern, rf'\\ac{{{short}}}', content, flags=re.IGNORECASE)
RECURSIVE SubFullForm(_, _, _, _)
SubFullForm(s, i, short, full) ==
    IF i > Len(s) THEN <<>>
    ELSE LET e == FullFormEnd(s, i, short, full)
         IN  IF e # 0
             THEN <<"\\ac{", short, "}">> \o SubFullForm(s, e + 1, short, full)
             ELSE <<s[i]>> \o SubFullForm(s, i + 1, short, full)

\* rf'(?<!\\ac\{{)(?<![a-zA-Z]){re.escape(short)}(?![a-zA-Z\}}])' at i
StandaloneAt(s, i, short) ==
    /\ s[i] = short
    /\ (i = 1 \/ (s[i - 1] # "\\ac{" /\ s[i - 1] \notin LastLetterTokens))
    /\ (i = Len(s) \/ (s[i + 1] \notin FirstLetterTokens /\ s[i + 1] # "}"))

\* re.sub of the standalone pattern, over the whole content
SubStandalone(s, short) ==
    SubAt(s, {i \in 1..Len(s) : StandaloneAt(s, i, short)}, <<"\\ac{", short, "}">>)

\* one iteration of the loop over ACRONYMS.items(); used_acronyms holds short
\* exactly when the full form was found in this iteration
AcronymStep(s, short, full) ==
    IF FullFormFound(s, short, full)
    THEN SubStandalone(SubFullForm(s, 1, short, full), short)
    ELSE s

RECURSIVE AcronymLoop(_, _)
AcronymLoop(s, k) ==
    IF k > Len(ACRONYMS) THEN s
    ELSE AcronymLoop(AcronymStep(s, ACRONYMS[k].short, ACRONYMS[k].full), k + 1)

replace_acronyms(content) == AcronymLoop(content, 1)

-----------------------------------------------------------------------------
(* The acronym folder applied to every text of up to MaxAcrLen tokens *)

AcrAlphabet ==
    {"Natural Rubber Latex", "natural rubber latex", "NRL", "(", ")", " ", "x"}

AcrInit ==
    /\ text \in SeqsUpTo(AcrAlphabet, MaxAcrLen)
    /\ out = <<>>
    /\ out2 = <<>>
    /\ chapters = <<>>
    /\ stage = "in"
    /\ NoConversion

AcrOnce ==
    /\ stage = "in"
    /\ out' = replace_acronyms(text)
    /\ stage' = "once"
    /\ UNCHANGED <<text, out2, chapters, fsVars, histVars, watchVars, watchHist>>

AcrNext == AcrOnce

AcrSpec == AcrInit /\ [][AcrNext]_vars

-----------------------------------------------------------------------------
(* split_into_chapters *)

\* list(re.finditer(r'\\chapter\{([^}]*)\}', content)) from position i on:
\* the start of every match, in order; a match runs from a \chapter{ to the
\* first } after it, and the scan resumes after that }
RECURSIVE ChapterMatches(_, _)
ChapterMatches(s, i) ==
    IF i > Len(s) THEN <<>>
    ELSE LET j == FirstIn(s, i + 1, {"}"})
         IN  IF s[i] = "\\chapter{" /\ j <= Len(s)
             THEN <<i>> \o ChapterMatches(s, j + 1)
             ELSE ChapterMatches(s, i + 1)

\* str.strip()
Strip(s) ==
    LET first == FirstNotIn(s, 1, SpaceTokens)
        last == CHOOSE k \in 0..Len(s) :
                    /\ k = 0 \/ s[k] \notin SpaceTokens
                    /\ \A m \in (k + 1)..Len(s) : s[m] \in SpaceTokens
    IN  IF first > Len(s) THEN <<>> ELSE SubSeq(s, first, last)

\* the slice that does not stop at the next match
ChapterContentToEnd(content, matches, i) ==
    Strip(SubSeq(content, matches[i], Len(content)))

\* content[start:end].strip() for the i-th match
ChapterContent(content, matches, i) ==
    LET start == matches[i]
        end == IF i + 1 <= Len(matches) THEN matches[i + 1] ELSE Len(content) + 1
    IN  Strip(SubSeq(content, start, end - 1))

\* the dict {1: ..., 2: ...} is the sequence of its values
split_into_chapters(content) ==
    LET matches == ChapterMatches(content, 1)
    IN  IF matches = <<>> THEN <<content>>
        ELSE [i \in 1..Len(matches) |-> ChapterContent(content, matches, i)]

-----------------------------------------------------------------------------
(* The splitter applied to every text of up to MaxSplitLen tokens *)

SplitAlphabet == {"\\chapter{", "}", "a", " "}

SplitInit ==
    /\ text \in SeqsUpTo(SplitAlphabet, MaxSplitLen)
    /\ out = <<>>
    /\ out2 = <<>>
    /\ chapters = <<>>
    /\ stage = "in"
    /\ NoConversion

SplitOnce ==
    /\ stage = "in"
    /\ chapters' = split_into_chapters(text)
    /\ stage' = "once"
    /\ UNCHANGED <<text, out, out2, fsVars, histVars, watchVars, watchHist>>

SplitNext == SplitOnce

SplitSpec == SplitInit /\ [][SplitNext]_vars

-----------------------------------------------------------------------------
(* fix_headings *)

\* the replacement that puts Chapter 1 before the first real content
IntroductionHeading ==
    <<"\\chapter{", "Introduction", "}", "\n",
      "\\label{", "ch:introduction", "}", "\n", "\n",
      "\\section{", "Background and Significance", "}", "\n",
      "\\label{", "sec:background-and-significance", "}">>

\* if 'Background and Significance' in content and
\* '\\chapter{Introduction}' not in content: re.sub(..., count=1)
InsertIntroduction(s) ==
    LET i == FirstIn(s, 1, {"Background and Significance"})
    IN  IF i <= Len(s) /\ ~ Occurs(<<"\\chapter{", "Introduction", "}">>, s)
        THEN SubSeq(s, 1, i - 1) \o IntroductionHeading \o SubSeq(s, i + 1, Len(s))
        ELSE s

\* r'Chapter\s+2\s*\n+\s*Literature\s+review' with re.IGNORECASE, tried at
\* position i: the index of the last token of the match, or 0
ChapterTwoEnd(s, i) ==
    IF Lower(s[i]) # "chapter 2" THEN 0
    ELSE LET j == FirstNotIn(s, i + 1, SpaceTokens)
         IN  IF /\ j <= Len(s)
                /\ Lower(s[j]) = "literature review"
                /\ \E m \in (i + 1)..(j - 1) : s[m] = "\n"
             THEN j
             ELSE 0

\* re.sub of the "Chapter 2 / Literature review" pattern
RECURSIVE SubChapterTwo(_, _)
SubChapterTwo(s, i) ==
    IF i > Len(s) THEN <<>>
    ELSE LET e == ChapterTwoEnd(s, i)
         IN  IF e # 0
             THEN <<"\\chapter{", "Literature Review", "}", "\n",
                    "\\label{", "ch:literature-review", "}">> \o SubChapterTwo(s, e + 1)
             ELSE <<s[i]>> \o SubChapterTwo(s, i + 1)

\* The rewrites of "Chapter 3", of \textbf{...} titles and of \hypertarget
\* wrappers act on tokens that no text of the model holds; on such a text
\* they, and the split('\n') / '\n'.join round trip, return their argument.
fix_headings(content) == SubChapterTwo(InsertIntroduction(content), 1)

-----------------------------------------------------------------------------
(* Converter outputs of the model *)

\* no heading at all
DocPlain == <<"a", "%", "\n">>

\* a preamble, an explicit first chapter with an acronym, and "Chapter 2"
DocTwo ==
    <<"x", "\n", "\\chapter{", "a", "}", "\n",
      "Natural Rubber Latex", "(", "NRL", ")", " ", "NRL", "\n",
      "Chapter 2", "\n", "Literature review", "&", "\n">>

\* no explicit first chapter, and four chapters in all
DocFour ==
    <<"Background and Significance", "\n",
      "\\chapter{", "b", "}", "\n", "\\chapter{", "c", "}", "\n",
      "\\chapter{", "x", "}", "\n">>

Docs == {DocPlain, DocTwo, DocFour}

\* the converter outputs of watch mode
WatchDocs == {DocPlain, DocTwo}

-----------------------------------------------------------------------------
(* The conversion *)

\* create_chapter_file: the header (file name, chapter number, title, and
\* time.strftime('%Y-%m-%d %H:%M:%S'), which names the clock's second)
\* followed by the content
create_chapter_file(chapter_num, content, clock) ==
    LET config == IF chapter_num \in DOMAIN CHAPTERS THEN CHAPTERS[chapter_num]
                  ELSE [title |-> "Chapter <n>", label |-> "ch:chapter<n>",
                        file |-> "chapter<n>.tex"]
    IN  [exists |-> TRUE, file |-> config.file, num |-> chapter_num,
         title |-> config.title, stamp |-> clock, body |-> content]

\* write_text in append mode instead of replacing the file
SaveChapterAppending(fs, chapter_num, chapter_content, clock) ==
    LET full == create_chapter_file(chapter_num, chapter_content, clock)
    IN  [files |-> [fs.files EXCEPT ![chapter_num] =
                        [full EXCEPT !.body = fs.files[chapter_num].body \o full.body]],
         baks |-> IF fs.files[chapter_num].exists
                  THEN [fs.baks EXCEPT ![chapter_num] = fs.files[chapter_num]]
                  ELSE fs.baks]

\* the backup taken after the overwrite instead of before it
SaveChapterBackupLate(fs, chapter_num, chapter_content, clock) ==
    LET full == create_chapter_file(chapter_num, chapter_content, clock)
    IN  [files |-> [fs.files EXCEPT ![chapter_num] = full],
         baks |-> IF fs.files[chapter_num].exists
                  THEN [fs.baks EXCEPT ![chapter_num] = full]
                  ELSE fs.baks]

\* the body of the loop of process_and_save for a chapter of CHAPTERS: back
\* up the existing file, then write the new one
SaveChapter(fs, chapter_num, chapter_content, clock) ==
    LET full == create_chapter_file(chapter_num, chapter_content, clock)
    IN  [files |-> [fs.files EXCEPT ![chapter_num] = full],
         baks |-> IF fs.files[chapter_num].exists
                  THEN [fs.baks EXCEPT ![chapter_num] = fs.files[chapter_num]]
                  ELSE fs.baks]

\* the loop of process_and_save from chapter_num on; a chapter that is not
\* in CHAPTERS is skipped
RECURSIVE SaveChapters(_, _, _, _)
SaveChapters(fs, chs, chapter_num, clock) ==
    IF chapter_num > Len(chs) THEN fs
    ELSE SaveChapters(IF chapter_num \in DOMAIN CHAPTERS
                      THEN SaveChapter(fs, chapter_num, chs[chapter_num], clock)
                      ELSE fs,
                      chs, chapter_num + 1, clock)

\* the transformations of process_and_save, up to the split
Transform(content) ==
    split_into_chapters(fix_headings(replace_acronyms(fix_special_characters(content))))

\* Transform of every converter output of the model, computed once
Transformed == [d \in Docs |-> Transform(d)]

\* Transform(content), looked up when content is a converter output of the model
TransformOf(content) ==
    IF content \in Docs THEN Transformed[content] ELSE Transform(content)

\* process_and_save on the file system fs = [files, baks]
process_and_save(fs, content, clock) == SaveChapters(fs, TransformOf(content), 1, clock)

\* the chapter files process_and_save writes for content
WrittenBy(content) == (1..Len(TransformOf(content))) \cap DOMAIN CHAPTERS

\* convert_word_to_latex: the converter's standard output, or None when the
\* converter is missing or exits nonzero
convert_word_to_latex(doc, outcome) ==
    IF outcome = "ok" THEN [none |-> FALSE, stdout |-> doc]
    ELSE [none |-> TRUE, stdout |-> <<>>]

ConverterOutcomes == {"ok", "nonzero", "missing"}

\* a failed conversion that saves the (empty) content all the same
ConvertOnceSavingAnyway(fs, exists, doc, outcome, clock) ==
    [ok |-> exists /\ outcome = "ok", fs |-> process_and_save(fs, doc, clock)]

\* convert_once: the value returned and the file system left, given whether
\* WORD_FILE exists, what the converter does, and the clock
convert_once(fs, exists, doc, outcome, clock) ==
    IF ~ exists THEN [ok |-> FALSE, fs |-> fs]
    ELSE LET content == convert_word_to_latex(doc, outcome)
         IN  IF content.none THEN [ok |-> FALSE, fs |-> fs]
             ELSE [ok |-> TRUE, fs |-> process_and_save(fs, content.stdout, clock)]

-----------------------------------------------------------------------------
(* The program run with --once, again and again *)

OnceInit ==
    /\ NoText
    /\ now = Epoch
    /\ srcExists \in BOOLEAN
    /\ srcDoc \in Docs
    /\ files \in {f \in [1..3 -> {Absent} \cup {Template(n) : n \in 1..3}] :
                    \A n \in 1..3 : f[n].exists => f[n] = Template(n)}
    /\ baks = [n \in 1..3 |-> Absent]
    /\ result = "none"
    /\ runs = 0
    /\ written = [n \in 1..3 |-> 0]
    /\ before = [n \in 1..3 |-> Absent]
    /\ lastRun = NoRun
    /\ prevRun = NoPrevRun
    /\ NoWatch

\* a second of the clock passes
Tick ==
    /\ now < Epoch + MaxOnceTicks
    /\ now' = now + 1
    /\ UNCHANGED <<textVars, srcExists, srcDoc, files, baks, histVars, watchVars, watchHist>>

\* the author saves the Word document
Save ==
    /\ \E d \in Docs :
        /\ d # srcDoc \/ ~ srcExists
        /\ srcDoc' = d
    /\ srcExists' = TRUE
    /\ UNCHANGED <<textVars, now, files, baks, histVars, watchVars, watchHist>>

\* the Word document is moved away
Remove ==
    /\ srcExists
    /\ srcExists' = FALSE
    /\ UNCHANGED <<textVars, now, srcDoc, files, baks, histVars, watchVars, watchHist>>

\* the bookkeeping of a convert_once that returned r
Record(r) ==
    /\ result' = IF r.ok THEN "ok" ELSE "failed"
    /\ runs' = runs + 1
    /\ IF r.ok
       THEN LET w == WrittenBy(srcDoc)
            IN  /\ written' = [n \in 1..3 |->
                                IF n \in w THEN (IF written[n] = 0 THEN 1 ELSE 2)
                                ELSE written[n]]
                /\ before' = [n \in 1..3 |-> IF n \in w THEN files[n] ELSE before[n]]
                /\ lastRun' = [content |-> srcDoc, time |-> now]
                /\ prevRun' = [content |-> lastRun.content, time |-> lastRun.time,
                               files |-> files]
       ELSE UNCHANGED <<written, before, lastRun, prevRun>>

\* main() with --once: one convert_once
RunOnce ==
    /\ runs < MaxRuns
    /\ \E outcome \in ConverterOutcomes :
        LET r == convert_once([files |-> files, baks |-> baks],
                              srcExists, srcDoc, outcome, now)
        IN  /\ files' = r.fs.files
            /\ baks' = r.fs.baks
            /\ Record(r)
    /\ UNCHANGED <<textVars, now, srcExists, srcDoc, watchVars, watchHist>>

OnceNext == Tick \/ Save \/ Remove \/ RunOnce

OnceSpec == OnceInit /\ [][OnceNext]_vars

-----------------------------------------------------------------------------
(* Watch mode: watch_and_convert *)

\* self.debounce_seconds
debounce_seconds == 2

\* time.sleep(1) in on_modified
SettleSeconds == 1

\* an event that has waited exactly the debounce interval passes too
AcceptsFromDebounce(event, current_time, last) ==
    /\ ~ event.is_directory
    /\ event.src_path = "word"
    /\ current_time - last >= debounce_seconds

\* the tests of on_modified: not a directory, the path of WORD_FILE, and
\* current_time - self.last_modified > self.debounce_seconds
Accepts(event, current_time, last) ==
    /\ ~ event.is_directory
    /\ event.src_path = "word"
    /\ current_time - last > debounce_seconds

\* the observer has been started
Watching == pc \notin {"initial", "initial_converting"}

\* a dispatcher that hands each event to a thread of its own
DispatcherAlwaysFree == Watching

\* The observer takes the events from its queue on one thread and calls
\* on_modified for one event at a time: the next event waits until the call
\* for the previous one has returned.  on_modified itself takes no lock.
DispatcherFree == pc = "idle"

\* convert_once up to the call of the converter: WORD_FILE is looked up;
\* when it is missing the call returns False at once, otherwise the
\* converter runs on what WORD_FILE holds now
ConvertBegin(running) ==
    /\ startFs' = [files |-> files, baks |-> baks]
    /\ IF srcExists
       THEN /\ active' = active + 1
            /\ inflight' = [exists |-> TRUE, doc |-> srcDoc]
            /\ pc' = running
            /\ UNCHANGED <<result, failures>>
       ELSE /\ result' = IF convert_once([files |-> files, baks |-> baks],
                                         FALSE, srcDoc, "ok", now).ok
                         THEN "ok" ELSE "failed"
            /\ failures' = IF failures = 0 THEN 1 ELSE 2
            /\ pc' = "idle"
            /\ UNCHANGED <<active, inflight>>
    /\ UNCHANGED <<files, baks>>

WatchInit ==
    /\ NoText
    /\ now = Epoch
    /\ srcExists \in BOOLEAN
    /\ srcDoc \in WatchDocs
    /\ files = [n \in 1..3 |-> Absent]
    /\ baks = [n \in 1..3 |-> Absent]
    /\ result = "none"
    /\ runs = 0
    /\ written = [n \in 1..3 |-> 0]
    /\ before = [n \in 1..3 |-> Absent]
    /\ lastRun = NoRun
    /\ prevRun = NoPrevRun
    /\ NoWatch

\* a second of the clock passes
WatchTick ==
    /\ now < Epoch + MaxWatchTicks
    /\ now' = now + 1
    /\ UNCHANGED <<textVars, srcExists, srcDoc, files, baks, histVars, watchVars, watchHist>>

\* the initial conversion of watch_and_convert begins, on the main thread
InitialConvert ==
    /\ pc = "initial"
    /\ ConvertBegin("initial_converting")
    /\ UNCHANGED <<textVars, now, srcExists, srcDoc, runs, written, before, lastRun,
                   prevRun, queue, last_modified, events, lastEvent, accepted, started,
                   convStart, pendingChange>>

\* the author saves the Word document before the observer is started
SaveUnwatched ==
    /\ ~ Watching
    /\ \E d \in WatchDocs :
        /\ d # srcDoc \/ ~ srcExists
        /\ srcDoc' = d
    /\ srcExists' = TRUE
    /\ UNCHANGED <<textVars, now, files, baks, histVars, watchVars, watchHist>>

\* the author saves the Word document: a modification event for WORD_FILE
SaveWatched ==
    /\ Watching
    /\ events < MaxEvents
    /\ \E d \in WatchDocs :
        /\ d # srcDoc \/ ~ srcExists
        /\ srcDoc' = d
    /\ srcExists' = TRUE
    /\ queue' = Append(queue, [is_directory |-> FALSE, src_path |-> "word"])
    /\ events' = events + 1
    /\ pendingChange' = TRUE
    /\ UNCHANGED <<textVars, now, files, baks, histVars, pc, last_modified, active,
                   inflight, lastEvent, accepted, started, convStart, startFs, failures>>

\* the Word document is moved away (no modification event)
WatchRemove ==
    /\ srcExists
    /\ srcExists' = FALSE
    /\ UNCHANGED <<textVars, now, srcDoc, files, baks, histVars, watchVars, watchHist>>

\* a modification event in the watched directory for another file or for a
\* directory
OtherEvent ==
    /\ Watching
    /\ events < MaxEvents
    /\ \E ev \in {e \in Events : e.src_path = "other"} : queue' = Append(queue, ev)
    /\ events' = events + 1
    /\ UNCHANGED <<textVars, fsVars, histVars, pc, last_modified, active, inflight,
                   lastEvent, accepted, started, convStart, startFs, failures,
                   pendingChange>>

\* on_modified is called with the next event, up to time.sleep(1)
Dispatch ==
    /\ DispatcherFree
    /\ queue # <<>>
    /\ LET event == Head(queue)
       IN  /\ lastEvent' = [seen |-> TRUE, is_directory |-> event.is_directory,
                            src_path |-> event.src_path, at |-> now, was |-> last_modified,
                            took |-> Accepts(event, now, last_modified)]
           /\ IF Accepts(event, now, last_modified)
              THEN /\ last_modified' = now
                   /\ accepted' = accepted + 1
                   /\ pc' = "settling"
              ELSE UNCHANGED <<last_modified, accepted, pc>>
    /\ queue' = Tail(queue)
    /\ UNCHANGED <<textVars, fsVars, histVars, active, inflight, events, started,
                   convStart, startFs, failures, pendingChange>>

\* time.sleep(1) returns and on_modified calls convert_once
Wake ==
    /\ pc = "settling"
    /\ now >= last_modified + SettleSeconds
    /\ started' = started + 1
    /\ convStart' = now
    /\ pendingChange' = FALSE
    /\ ConvertBegin("converting")
    /\ UNCHANGED <<textVars, now, srcExists, srcDoc, runs, written, before, lastRun,
                   prevRun, queue, last_modified, events, lastEvent, accepted>>

\* the converter returns and convert_once runs to its end; after the initial
\* conversion the observer is started
Finish ==
    /\ pc \in {"initial_converting", "converting"}
    /\ \E outcome \in ConverterOutcomes :
        LET r == convert_once([files |-> files, baks |-> baks],
                              inflight.exists, inflight.doc, outcome, now)
        IN  /\ files' = r.fs.files
            /\ baks' = r.fs.baks
            /\ result' = IF r.ok THEN "ok" ELSE "failed"
            /\ failures' = IF r.ok THEN failures ELSE IF failures = 0 THEN 1 ELSE 2
    /\ active' = active - 1
    /\ pc' = "idle"
    /\ UNCHANGED <<textVars, now, srcExists, srcDoc, runs, written, before, lastRun,
                   prevRun, queue, last_modified, inflight, events, lastEvent, accepted,
                   started, convStart, startFs, pendingChange>>

WatchNext ==
    \/ WatchTick
    \/ InitialConvert
    \/ SaveUnwatched
    \/ SaveWatched
    \/ WatchRemove
    \/ OtherEvent
    \/ Dispatch
    \/ Wake
    \/ Finish

WatchSpec == WatchInit /\ [][WatchNext]_vars

-----------------------------------------------------------------------------
(* Properties of the text functions *)

\* position p of s starts a top-level heading marker \chapter{...}: a
\* \chapter{ with a } after it that does not lie inside the braces of an
\* earlier \chapter{
IsMarkerStart(s, p) ==
    /\ s[p] = "\\chapter{"
    /\ \E q \in (p + 1)..Len(s) : s[q] = "}"
    /\ ~ \E pp \in 1..(p - 1) :
            /\ s[pp] = "\\chapter{"
            /\ \A r \in (pp + 1)..(p - 1) : s[r] # "}"

MarkerStarts(s) == {p \in 1..Len(s) : IsMarkerStart(s, p)}

\* the i-th marker start, in order of appearance
NthMarker(s, i) ==
    CHOOSE p \in MarkerStarts(s) :
        Cardinality({q \in MarkerStarts(s) : q < p}) = i - 1

\* the last position before the (i+1)-th marker, or the end of the text
SliceEnd(s, i) ==
    IF i < Cardinality(MarkerStarts(s)) THEN NthMarker(s, i + 1) - 1 ELSE Len(s)

\* C6 as stated: k >= 1 markers give exactly k entries keyed 1..k, entry i
\* being the text from the i-th marker up to the next marker or the end of
\* the text; no marker gives the single entry {1: whole text}.
C6_ExactSlices ==
    stage = "once" =>
        LET k == Cardinality(MarkerStarts(text))
        IN  IF k = 0 THEN chapters = <<text>>
            ELSE /\ Len(chapters) = k
                 /\ \A i \in 1..k :
                        chapters[i] = SubSeq(text, NthMarker(text, i), SliceEnd(text, i))

\* C6 amended: k >= 1 markers give exactly k entries keyed 1..k; entry i
\* starts at the i-th marker and runs to the last non-whitespace token before
\* the next marker or the end of the text (trailing whitespace is dropped);
\* nothing before the first marker is in any entry; no marker gives the
\* single entry {1: whole text}, unstripped.
C6_StrippedSlices ==
    stage = "once" =>
        LET k == Cardinality(MarkerStarts(text))
        IN  IF k = 0 THEN chapters = <<text>>
            ELSE /\ Len(chapters) = k
                 /\ \A i \in 1..k :
                        \E b \in NthMarker(text, i)..SliceEnd(text, i) :
                            /\ chapters[i] = SubSeq(text, NthMarker(text, i), b)
                            /\ text[b] \notin SpaceTokens
                            /\ \A m \in (b + 1)..SliceEnd(text, i) : text[m] \in SpaceTokens

\* two markers after a non-empty preamble, the first chapter followed by
\* whitespace that the split drops
C6_Witness ==
    /\ stage = "once"
    /\ Cardinality(MarkerStarts(text)) = 2
    /\ NthMarker(text, 1) > 1
    /\ Len(chapters) = 2
    /\ chapters[1] # SubSeq(text, NthMarker(text, 1), SliceEnd(text, 1))

\* the first "full (short)" occurrence of an acronym in s, or 0
FirstFullForm(s, short, full) ==
    IF FullFormFound(s, short, full)
    THEN CHOOSE i \in 1..Len(s) :
            /\ FullFormEnd(s, i, short, full) # 0
            /\ \A j \in 1..(i - 1) : FullFormEnd(s, j, short, full) = 0
    ELSE 0

\* C7: for every acronym of the table, "full (short)" and every bare short
\* after it become \ac{short}, a bare short before the first "full (short)"
\* stays as it is, and without any "full (short)" no short is changed.
\* (Stated for texts that hold the words of one acronym only.)
C7_ForwardOnly ==
    stage = "once" =>
        \A k \in 1..Len(ACRONYMS) :
            LET short == ACRONYMS[k].short
                full == ACRONYMS[k].full
                f == FirstFullForm(text, short, full)
                others == {ACRONYMS[m].short : m \in (1..Len(ACRONYMS)) \ {k}}
            IN  (\A i \in 1..Len(text) : text[i] \notin others) =>
                    IF f = 0 THEN out = text
                    ELSE /\ (\A i \in 1..(f - 1) :
                                text[i] = short => StandaloneAt(text, i, short))
                            => SubSeq(out, 1, f - 1) = SubSeq(text, 1, f - 1)
                         /\ \A i \in 1..Len(out) :
                                out[i] = short => (i > 1 /\ out[i - 1] = "\\ac{")
                                                  \/ ~ StandaloneAt(out, i, short)
                                                  \/ i < f

\* C8: in the output every % and every & is preceded by a backslash, a text
\* whose % and & are all escaped already (and that holds nothing else the
\* normalizer rewrites) comes back unchanged, and normalizing twice gives
\* what normalizing once gives.
C8_EscapesAll ==
    stage = "twice" =>
        /\ \A i \in 1..Len(out) :
                out[i] \in {"%", "&"} => i > 1 /\ out[i - 1] = "\\"
        /\ (\A i \in 1..Len(text) :
                /\ text[i] \in {"%", "&"} => i > 1 /\ text[i - 1] = "\\"
                /\ text[i] \notin {"\"", "<emdash>"}) => out = text
        /\ out2 = out

\* C9: a span "X" of the input, X without a double quote, comes out as
\* ``X'' with X unchanged between the new quote marks.
C9_QuotedTextKept ==
    stage = "once" =>
        \A i \in 1..Len(text) : \A j \in (i + 1)..Len(text) :
            (/\ text[i] = "\""
             /\ text[j] = "\""
             /\ \A m \in (i + 1)..(j - 1) : text[m] # "\""
             /\ Cardinality({m \in 1..(i - 1) : text[m] = "\""}) % 2 = 0)
            => Occurs(<<"``">> \o SubSeq(text, i + 1, j - 1) \o <<"''">>, out)

-----------------------------------------------------------------------------
(* Properties of the conversion *)

\* two successive runs of process_and_save had the same converter output
SameOutputTwice == prevRun.content # <<>> /\ lastRun.content = prevRun.content

\* C4 as stated: after two successive runs of process_and_save on identical
\* converter output, every chapter file is byte-identical to what the first
\* of the two runs left, whenever the two runs happen.
C4_ByteIdentical ==
    SameOutputTwice => \A n \in 1..3 : files[n] = prevRun.files[n]

\* C4 amended: after two successive runs on identical converter output every
\* chapter file equals what the first run left except for the time stamp of
\* its header, and is byte-identical when both runs fall in one clock second.
C4_IdenticalButStamp ==
    SameOutputTwice =>
        \A n \in 1..3 :
            /\ [files[n] EXCEPT !.stamp = 0] = [prevRun.files[n] EXCEPT !.stamp = 0]
            /\ lastRun.time = prevRun.time => files[n] = prevRun.files[n]

\* the second of two runs on the same output, in a later second, has
\* rewritten chapter 1
C4_Witness ==
    /\ SameOutputTwice
    /\ lastRun.time > prevRun.time
    /\ written[1] = 2
    /\ files[1].stamp = lastRun.time

\* C5 as stated: a chapter file written at least twice has a .bak holding
\* what the file held just before its latest write; a chapter file written
\* only once has no .bak.
C5_BackupOnlyAfterTwoWrites ==
    \A n \in 1..3 :
        /\ written[n] = 2 => baks[n] = before[n]
        /\ written[n] = 1 => ~ baks[n].exists

\* C5 amended: for every chapter file the program wrote over an existing
\* file (any file written twice or more, and a file written once that was
\* there before), the .bak holds what the file held just before its latest
\* write; a file written once that did not exist before has no .bak.
C5_BackupIsPrevious ==
    \A n \in 1..3 :
        /\ written[n] = 2 => before[n].exists
        /\ written[n] >= 1 =>
                IF before[n].exists THEN baks[n] = before[n] ELSE ~ baks[n].exists

\* chapter 1 written twice by the program, in different seconds: the .bak
\* holds the first output, the file the second
C5_Witness ==
    /\ written[1] = 2
    /\ baks[1].exists
    /\ baks[1].stamp >= Epoch
    /\ files[1].stamp > baks[1].stamp

-----------------------------------------------------------------------------
(* Properties of watch mode *)

\* what C1 says of every on_modified call besides the debounce test itself:
\* an accepted event records its time and leads to exactly one convert_once,
\* begun no sooner than the settle delay after it; any other event begins
\* none and leaves last_modified as it was
OneConversionPerAcceptedEvent ==
    /\ lastEvent.seen =>
            last_modified = IF lastEvent.took THEN lastEvent.at ELSE lastEvent.was
    /\ pc = "settling" => started + 1 = accepted
    /\ pc # "settling" => started = accepted
    /\ (pc # "settling" /\ started >= 1) => convStart >= last_modified + SettleSeconds

\* C1 as stated: an event starts a conversion exactly when it is a
\* non-directory event for the watched file and at least 2 seconds have
\* passed since the last accepted event; then exactly one conversion starts,
\* after the 1-second settle delay; every other event starts none and leaves
\* the last-accepted time unchanged.
C1_AcceptsAtTwoSeconds ==
    /\ lastEvent.seen =>
            (lastEvent.took <=>
                /\ ~ lastEvent.is_directory
                /\ lastEvent.src_path = "word"
                /\ lastEvent.at - lastEvent.was >= debounce_seconds)
    /\ OneConversionPerAcceptedEvent

\* C1 amended: as C1, with "more than 2 seconds" for "at least 2 seconds".
C1_AcceptsAfterTwoSeconds ==
    /\ lastEvent.seen =>
            (lastEvent.took <=>
                /\ ~ lastEvent.is_directory
                /\ lastEvent.src_path = "word"
                /\ lastEvent.at - lastEvent.was > debounce_seconds)
    /\ OneConversionPerAcceptedEvent

\* after an accepted event and its conversion, an event for the watched file
\* is handled exactly 2 seconds after the accepted one, and is refused
C1_Witness ==
    /\ started >= 1
    /\ lastEvent.seen
    /\ ~ lastEvent.is_directory
    /\ lastEvent.src_path = "word"
    /\ lastEvent.at - lastEvent.was = debounce_seconds
    /\ ~ lastEvent.took
    /\ pc = "idle"

C3_FailureLeavesFiles ==
    /\ result = "failed" => (files = startFs.files /\ baks = startFs.baks)
    /\ (failures >= 1 /\ Watching /\ pc # "settling") => started = accepted
    /\ (failures >= 1 /\ pc = "settling") => started + 1 = accepted

\* after a conversion that wrote chapter 1 and a later attempt that failed,
\* a fresh attempt is in flight and chapter 1 is still there
C3_Witness ==
    /\ result = "failed"
    /\ failures >= 1
    /\ pc = "converting"
    /\ started >= 2
    /\ files[1].exists
    /\ files = startFs.files

\* C10: no final change is lost.  Once the handler is idle and no event
\* waits, nothing starts a conversion until the next modification; so by
\* then a conversion must have begun at or after the latest modification
\* event of the watched file.
C10_NoLostChange ==
    (Watching /\ pc = "idle" /\ queue = <<>>) => ~ pendingChange

====
